---- MODULE Spec2Model ----
(***************************************************************************)
(* Model of the dynamic record reference of the storage engine             *)
(* (src/record/runtime/record_ref.rs): DynRecordRef with its constructor,  *)
(* its log encoding (encode / size), key, from_record_batch and            *)
(* projection.                                                             *)
(*                                                                         *)
(* A type-erased payload Arc<dyn Any> is modelled by a record              *)
(*   [kind, ty, v]                                                         *)
(* where kind is "bare" (a T), "some" (an Option<T> holding Some(v)) or    *)
(* "none" (an Option<T> holding None), ty is the name of the Rust type T   *)
(* and v the value (NoValue for None).                                     *)
(*                                                                         *)
(* A record batch is modelled by the one row the call reads (the row at    *)
(* `offset`): for each column of the batch its null bit and the value      *)
(* stored in the values buffer at that row.                                *)
(***************************************************************************)
EXTENDS Integers, Sequences, FiniteSets, TLC

VARIABLES
    columns,        \* DynRecordRef::columns, a sequence of Value (1-based here)
    primary_index,  \* DynRecordRef::primary_index (0-based, as in the code)
    origin,         \* how the row was made: "none", "new", "from_record_batch", "moved"
    wrapper,        \* ts and null flag of the OptionRecordRef around the row
    op,             \* the last operation called
    args,           \* the arguments of the last call
    pc,             \* encode: number of write calls completed, or -1 when not encoding
    sink,           \* encode: the items the writer has accepted, in order
    ret,            \* the value the last call returned
    reads           \* the batch columns (0-based) the last from_record_batch read

vars == <<columns, primary_index, origin, wrapper, op, args, pc, sink, ret, reads>>

----------------------------------------------------------------------------
(* Bounds of the model *)

\* largest number of user fields of a full schema
MaxFields == 2

\* column values are drawn from 0..MaxVal
MaxVal == 1

----------------------------------------------------------------------------
(* Constants of the program *)

\* crate::magic::USER_COLUMN_OFFSET: the two leading system columns _null, _ts
USER_COLUMN_OFFSET == 2

\* mem::size_of::<u32>()
SizeOfU32 == 4

----------------------------------------------------------------------------
(* DataType and payloads *)

DataTypes ==
    << "UInt8", "UInt16", "UInt32", "UInt64", "Int8", "Int16", "Int32", "Int64",
       "Float32", "Float64", "String", "Boolean", "Bytes" >>

NumDataTypes == Len(DataTypes)

NoValue == -1

Bare(ty, v) == [kind |-> "bare", ty |-> ty, v |-> v]

Some(ty, v) == [kind |-> "some", ty |-> ty, v |-> v]

None(ty) == [kind |-> "none", ty |-> ty, v |-> NoValue]

\* bool::then_some
ThenSome(cond, ty, v) == IF cond THEN Some(ty, v) ELSE None(ty)

\* the Rust type projection's match installs an Option of, per DataType
OptionTypeOf(datatype) ==
    CASE datatype = "UInt8"   -> "u8"
      [] datatype = "UInt16"  -> "u16"
      [] datatype = "UInt32"  -> "u32"
      [] datatype = "UInt64"  -> "u64"
      [] datatype = "Int8"    -> "i8"
      [] datatype = "Int16"   -> "i16"
      [] datatype = "Int32"   -> "i32"
      [] datatype = "Int64"   -> "i64"
      [] datatype = "Float32" -> "F32"
      [] datatype = "Float64" -> "F64"
      [] datatype = "String"  -> "String"
      [] datatype = "Boolean" -> "bool"
      [] datatype = "Bytes"   -> "Vec<u8>"

\* Value::new
Value(datatype, name, value, is_nullable) ==
    [datatype |-> datatype, name |-> name, value |-> value, is_nullable |-> is_nullable]

\* Value::with_none_value
with_none_value(datatype, name, is_nullable) ==
    Value(datatype, name, None(OptionTypeOf(datatype)), is_nullable)

----------------------------------------------------------------------------
(* ProjectionMask: mask = None (all) or Some(vector of bool, one per leaf) *)

MaskAll == [all |-> TRUE, mask |-> << >>]

MaskOf(bits) == [all |-> FALSE, mask |-> bits]

\* ProjectionMask::leaf_included (leaf_idx is 0-based)
leaf_included(projection_mask, leaf_idx) ==
    IF projection_mask.all THEN TRUE ELSE projection_mask.mask[leaf_idx + 1]

\* the masks over a schema of n user leaves: all, and every choice of user
\* leaves (the two system leaves, which no code here asks about, excluded)
Masks(n) ==
    {MaskAll} \cup { MaskOf(<<FALSE, FALSE>> \o bits) : bits \in [1..n -> BOOLEAN] }

----------------------------------------------------------------------------
(* Arrow schemas and record batches *)

Field(name, data_type, nullable) ==
    [name |-> name, data_type |-> data_type, nullable |-> nullable]

\* Field::contains for primitive fields without metadata
FieldContains(field, f) ==
    /\ field.name = f.name
    /\ field.data_type = f.data_type
    /\ (field.nullable \/ ~f.nullable)

NullField == Field("_null", "Boolean", FALSE)

TsField == Field("_ts", "UInt32", FALSE)

Names == <<"id", "foo", "bar", "baz", "qux", "zap">>

\* the user fields of a schema of n fields: the data types run through
\* DataTypes from position t0, nullability alternates from t0
UserFields(n, t0) ==
    [i \in 1..n |->
        Field(Names[i], DataTypes[((t0 + i - 1) % NumDataTypes) + 1], (i + t0) % 2 = 0)]

Digits == <<"0", "1", "2", "3", "4", "5", "6", "7", "8", "9">>

\* the metadata of a full schema of n user fields: the "primary_key_index"
\* entry is absent, or a string of characters: one digit 0..n (n is past the
\* last user column), the empty string, or a string that is no number
Metadatas(n) ==
    {[has |-> FALSE, primary_key_index |-> << >>]} \cup
    { [has |-> TRUE, primary_key_index |-> s] :
        s \in {<< >>, <<"1", "x">>} \cup { <<Digits[d + 1]>> : d \in 0..n } }

DigitValue(c) ==
    IF \E d \in 1..Len(Digits) : Digits[d] = c
    THEN (CHOOSE d \in 1..Len(Digits) : Digits[d] = c) - 1
    ELSE -1

RECURSIVE ParseDigits(_, _)
ParseDigits(s, acc) ==
    IF s = << >> THEN acc
    ELSE IF DigitValue(Head(s)) < 0 THEN -1
    ELSE ParseDigits(Tail(s), acc * 10 + DigitValue(Head(s)))

\* str::parse::<usize>: -1 stands for Err
ParseUsize(s) == IF s = << >> THEN -1 ELSE ParseDigits(s, 0)

RECURSIVE PruneFrom(_, _, _)
PruneFrom(fields, keep, i) ==
    IF i > Len(fields) THEN << >>
    ELSE (IF i \in keep THEN <<fields[i]>> ELSE << >>) \o PruneFrom(fields, keep, i + 1)

\* the full schema: the two system fields, then the user fields
FullSchema(n, t0, metadata) ==
    [fields |-> <<NullField, TsField>> \o UserFields(n, t0), metadata |-> metadata]

\* a batch schema pruned from the full one: the system fields and the user
\* fields at the positions in keep
BatchSchema(n, t0, keep) ==
    <<NullField, TsField>> \o PruneFrom(UserFields(n, t0), keep, 1)

Cell(is_null, value) == [is_null |-> is_null, value |-> value]

\* the row's system columns in the batches: the deletion flag, and the
\* timestamp 7
NullCells == {Cell(FALSE, null) : null \in BOOLEAN}

TsCell == Cell(FALSE, 7)

\* the batches of a schema: column 0 holds the deletion flag, column 1 the
\* timestamp, each user column a null bit and the value in its buffer
RecordBatches(schema) ==
    { [schema |-> schema, columns |-> <<null_cell, TsCell>> \o cells] :
        null_cell \in NullCells,
        cells \in [1..(Len(schema) - USER_COLUMN_OFFSET) ->
                     {Cell(z, v) : z \in BOOLEAN, v \in 0..MaxVal}] }

----------------------------------------------------------------------------
(* DynRecordRef::from_record_batch *)

\* flattened_fields.iter().enumerate().find(|(_idx, f)| field.contains(f)):
\* the first position (1-based), 0 for None
FindBatchField(field, flattened_fields) ==
    LET found == {i \in 1..Len(flattened_fields) : FieldContains(field, flattened_fields[i])}
    IN  IF found = {} THEN 0 ELSE CHOOSE i \in found : \A j \in found : i <= j

\* primitive_value with the projection mask left out of the optional branch
primitive_value_ignoring_mask(ty, col, idx, projection_mask, primary) ==
    IF primary
    THEN Bare(ty, col.value)
    ELSE ThenSome(~col.is_null, ty, col.value)

\* primitive_value with the primary branch honouring the null bit
primitive_value_primary_nullable(ty, col, idx, projection_mask, primary) ==
    IF primary /\ ~col.is_null
    THEN Bare(ty, col.value)
    ELSE ThenSome(~col.is_null /\ leaf_included(projection_mask, idx), ty, col.value)

\* DynRecordRef::primitive_value::<T>, ty the native type of T
primitive_value(ty, col, idx, projection_mask, primary) ==
    IF primary
    THEN Bare(ty, col.value)
    ELSE ThenSome(~col.is_null /\ leaf_included(projection_mask, idx), ty, col.value)

\* the match on datatype of from_record_batch (idx is the 0-based position
\* of the field in the full schema)
MatchValue(datatype, col, idx, projection_mask, primary_key_index) ==
    CASE datatype = "UInt8"  -> primitive_value("u8", col, idx, projection_mask, primary_key_index = idx - 2)
      [] datatype = "UInt16" -> primitive_value("u16", col, idx, projection_mask, primary_key_index = idx - 2)
      [] datatype = "UInt32" -> primitive_value("u32", col, idx, projection_mask, primary_key_index = idx - 2)
      [] datatype = "UInt64" -> primitive_value("u64", col, idx, projection_mask, primary_key_index = idx - 2)
      [] datatype = "Int8"   -> primitive_value("i8", col, idx, projection_mask, primary_key_index = idx - 2)
      [] datatype = "Int16"  -> primitive_value("i16", col, idx, projection_mask, primary_key_index = idx - 2)
      [] datatype = "Int32"  -> primitive_value("i32", col, idx, projection_mask, primary_key_index = idx - 2)
      [] datatype = "Int64"  -> primitive_value("i64", col, idx, projection_mask, primary_key_index = idx - 2)
      [] datatype = "Float32" ->
            IF primary_key_index = idx - 2
            THEN Bare("F32", col.value)
            ELSE ThenSome(~col.is_null /\ leaf_included(projection_mask, idx), "F32", col.value)
      [] datatype = "Float64" ->
            IF primary_key_index = idx - 2
            THEN Bare("F64", col.value)
            ELSE ThenSome(~col.is_null /\ leaf_included(projection_mask, idx), "F64", col.value)
      [] datatype = "String" ->
            IF primary_key_index = idx - 2
            THEN Bare("String", col.value)
            ELSE ThenSome(~col.is_null /\ leaf_included(projection_mask, idx), "String", col.value)
      [] datatype = "Boolean" ->
            IF primary_key_index = idx - 2
            THEN Bare("bool", col.value)
            ELSE ThenSome(~col.is_null /\ leaf_included(projection_mask, idx), "bool", col.value)
      [] datatype = "Bytes" ->
            IF primary_key_index = idx - 2
            THEN Bare("Vec<u8>", col.value)
            ELSE ThenSome(~col.is_null /\ leaf_included(projection_mask, idx), "Vec<u8>", col.value)

\* one turn of the loop over full_schema.flattened_fields(), for the field at
\* the 0-based position idx: the Value pushed
MaterializeField(record_batch, projection_mask, full_schema, primary_key_index, idx) ==
    LET field       == full_schema.fields[idx + 1]
        datatype    == field.data_type
        batch_field == FindBatchField(field, record_batch.schema)
    IN  IF batch_field = 0
        THEN with_none_value(datatype, field.name, field.nullable)
        ELSE Value(datatype, field.name,
                   MatchValue(datatype, record_batch.columns[batch_field], idx,
                              projection_mask, primary_key_index),
                   field.nullable)

\* the loop of from_record_batch with `continue` before the push of the
\* null column of a field the batch omits
MaterializeColumns_skipping_missing(record_batch, projection_mask, full_schema, primary_key_index) ==
    LET all == [j \in 1..(Len(full_schema.fields) - 2) |->
                  MaterializeField(record_batch, projection_mask, full_schema,
                                   primary_key_index, j + 1)]
        found == {j \in 1..(Len(full_schema.fields) - 2) :
                    FindBatchField(full_schema.fields[j + 2], record_batch.schema) # 0}
    IN  PruneFrom(all, found, 1)

\* the columns from_record_batch accumulates: one per field of the full
\* schema after the first two, in the order of the full schema
MaterializeColumns(record_batch, projection_mask, full_schema, primary_key_index) ==
    [j \in 1..(Len(full_schema.fields) - 2) |->
        MaterializeField(record_batch, projection_mask, full_schema, primary_key_index, j + 1)]

\* the batch columns (0-based) from_record_batch reads with
\* record_batch.column(..): columns 0 and 1, and the column found for a field
ColumnsRead(record_batch, full_schema) ==
    {0, 1} \cup
    { FindBatchField(full_schema.fields[idx + 1], record_batch.schema) - 1 :
        idx \in {i \in 2..(Len(full_schema.fields) - 1) :
                    FindBatchField(full_schema.fields[i + 1], record_batch.schema) # 0} }

\* metadata.get("primary_key_index").unwrap().parse::<usize>().unwrap():
\* -1 stands for the panic of either unwrap
PrimaryIndexOf(full_schema) ==
    IF ~full_schema.metadata.has THEN -1
    ELSE ParseUsize(full_schema.metadata.primary_key_index)

----------------------------------------------------------------------------
(* DynRecordRef::projection *)

\* projection's match with the Int16 arm copied from the UInt16 arm
ProjectionNone_int16_as_u16(datatype) ==
    CASE datatype = "UInt8"   -> None("u8")
      [] datatype = "UInt16"  -> None("u16")
      [] datatype = "UInt32"  -> None("u32")
      [] datatype = "UInt64"  -> None("u64")
      [] datatype = "Int8"    -> None("i8")
      [] datatype = "Int16"   -> None("u16")
      [] datatype = "Int32"   -> None("i32")
      [] datatype = "Int64"   -> None("i64")
      [] datatype = "Float32" -> None("F32")
      [] datatype = "Float64" -> None("F64")
      [] datatype = "String"  -> None("String")
      [] datatype = "Boolean" -> None("bool")
      [] datatype = "Bytes"   -> None("Vec<u8>")

\* the arm of projection's match on col.datatype(): the value installed
ProjectionNone(datatype) ==
    CASE datatype = "UInt8"   -> None("u8")
      [] datatype = "UInt16"  -> None("u16")
      [] datatype = "UInt32"  -> None("u32")
      [] datatype = "UInt64"  -> None("u64")
      [] datatype = "Int8"    -> None("i8")
      [] datatype = "Int16"   -> None("i16")
      [] datatype = "Int32"   -> None("i32")
      [] datatype = "Int64"   -> None("i64")
      [] datatype = "Float32" -> None("F32")
      [] datatype = "Float64" -> None("F64")
      [] datatype = "String"  -> None("String")
      [] datatype = "Boolean" -> None("bool")
      [] datatype = "Bytes"   -> None("Vec<u8>")

\* projection without the test idx != self.primary_index
projection_touching_primary(cols, pidx, projection_mask) ==
    [j \in 1..Len(cols) |->
        LET idx == j - 1
        IN  IF ~leaf_included(projection_mask, idx + USER_COLUMN_OFFSET)
            THEN [cols[j] EXCEPT !.value = None(OptionTypeOf(cols[j].datatype))]
            ELSE cols[j]]

\* projection with || in place of && in its condition
projection_or(cols, pidx, projection_mask) ==
    [j \in 1..Len(cols) |->
        LET idx == j - 1
        IN  IF idx # pidx \/ ~leaf_included(projection_mask, idx + USER_COLUMN_OFFSET)
            THEN [cols[j] EXCEPT !.value = None(OptionTypeOf(cols[j].datatype))]
            ELSE cols[j]]

\* projection numbering the leaves over the columns that hold a value
projection_compacted(cols, pidx, projection_mask) ==
    [j \in 1..Len(cols) |->
        LET idx == Cardinality({k \in 1..(j - 1) : cols[k].value.kind # "none"})
        IN  IF j - 1 # pidx /\ ~leaf_included(projection_mask, idx + USER_COLUMN_OFFSET)
            THEN [cols[j] EXCEPT !.value = None(OptionTypeOf(cols[j].datatype))]
            ELSE cols[j]]

\* the columns after projection(projection_mask) on a row of columns cols
\* and primary index pidx
projection(cols, pidx, projection_mask) ==
    [j \in 1..Len(cols) |->
        LET idx == j - 1
        IN  IF idx # pidx /\ ~leaf_included(projection_mask, idx + USER_COLUMN_OFFSET)
            THEN [cols[j] EXCEPT !.value = ProjectionNone(cols[j].datatype)]
            ELSE cols[j]]

----------------------------------------------------------------------------
(* Encode for Value: the bytes of one column and their count *)

\* the width of the length prefix of a String or a Vec<u8>
LenPrefixWidth == 4

\* the width of the presence flag of an Option
FlagWidth == 1

ZeroBytes(n) == [i \in 1..n |-> 0]

\* the bytes of a value v of the Rust type ty
PayloadBytes(ty, v) ==
    CASE ty \in {"u8", "i8", "bool"}   -> ZeroBytes(1)
      [] ty \in {"u16", "i16"}         -> ZeroBytes(2)
      [] ty \in {"u32", "i32", "F32"}  -> ZeroBytes(4)
      [] ty \in {"u64", "i64", "F64"}  -> ZeroBytes(8)
      [] ty \in {"String", "Vec<u8>"}  -> ZeroBytes(LenPrefixWidth) \o ZeroBytes(v)

\* Value::encode: the bytes written for a column
ValueEncode(col) ==
    CASE col.value.kind = "bare" -> PayloadBytes(col.value.ty, col.value.v)
      [] col.value.kind = "some" -> ZeroBytes(FlagWidth) \o PayloadBytes(col.value.ty, col.value.v)
      [] col.value.kind = "none" -> ZeroBytes(FlagWidth)

\* the encoded size of a value v of the Rust type ty
PayloadSize(ty, v) ==
    CASE ty \in {"u8", "i8", "bool"}   -> 1
      [] ty \in {"u16", "i16"}         -> 2
      [] ty \in {"u32", "i32", "F32"}  -> 4
      [] ty \in {"u64", "i64", "F64"}  -> 8
      [] ty \in {"String", "Vec<u8>"}  -> LenPrefixWidth + v

\* Value::size
ValueSize(col) ==
    (IF col.value.kind = "bare" THEN 0 ELSE FlagWidth)
    + (IF col.value.kind = "none" THEN 0 ELSE PayloadSize(col.value.ty, col.value.v))

----------------------------------------------------------------------------
(* Encode for DynRecordRef *)

\* `n as u32` on a usize n: n modulo 2^32.  Every number of this model is a
\* column count or an index below 2^31, which the cast leaves as it is.
AsU32(n) == n

U32Item(n) == [tag |-> "u32", value |-> n]

ColItem(col) == [tag |-> "col", value |-> col]

\* the number of write calls of an encode that succeeds
EncodeWrites(cols) == 2 + Len(cols)

\* encode writing the primary index before the column count
EncodeItem_primary_first(cols, pidx, i) ==
    CASE i = 0 -> U32Item(AsU32(pidx))
      [] i = 1 -> U32Item(AsU32(Len(cols)))
      [] OTHER -> ColItem(cols[i - 1])

\* the i-th (0-based) item encode hands to the writer
EncodeItem(cols, pidx, i) ==
    CASE i = 0 -> U32Item(AsU32(Len(cols)))
      [] i = 1 -> U32Item(AsU32(pidx))
      [] OTHER -> ColItem(cols[i - 1])

\* the number of bytes the writer receives for an item
ItemLen(item) ==
    IF item.tag = "u32" THEN SizeOfU32 ELSE Len(ValueEncode(item.value))

Pending == [tag |-> "pending", at |-> 0]

Ok == [tag |-> "Ok", at |-> 0]

\* RecordEncodeError raised by the write call number i (0-based)
Err(i) == [tag |-> "Err", at |-> i]

Unit == [tag |-> "unit", at |-> 0]

\* one write call of encode, in the state st = [pc, sink, ret] of the call:
\* the writer accepts the item (accepted) or fails, and `?` returns the error
EncodeStep(cols, pidx, st, accepted) ==
    IF accepted
    THEN [pc |-> st.pc + 1, sink |-> Append(st.sink, EncodeItem(cols, pidx, st.pc)), ret |-> Pending]
    ELSE [pc |-> st.pc + 1, sink |-> st.sink, ret |-> Err(st.pc)]

RECURSIVE SizeFrom(_, _, _)
SizeFrom(cols, j, acc) ==
    IF j > Len(cols) THEN acc ELSE SizeFrom(cols, j + 1, acc + ValueSize(cols[j]))

\* size counting one header field
size_one_header(cols) == SizeFrom(cols, 1, SizeOfU32)

\* DynRecordRef::size
size(cols) == SizeFrom(cols, 1, 2 * SizeOfU32)

RECURSIVE BytesWritten(_)
BytesWritten(items) ==
    IF items = << >> THEN 0 ELSE ItemLen(Head(items)) + BytesWritten(Tail(items))

----------------------------------------------------------------------------
(* The state machine: one row, from its construction on *)

NoArgs == [call |-> "none"]

NoWrapper == [has |-> FALSE, ts |-> 0, null |-> FALSE]

\* the payloads of a column, its type apart: an empty optional value, a
\* bare value, a present optional value
PayloadShapes ==
    {[kind |-> "none", v |-> NoValue]} \cup
    {[kind |-> k, v |-> v] : k \in {"bare", "some"}, v \in 0..MaxVal}

\* the payloads of a column of the type tag datatype
Payloads(datatype) ==
    {[kind |-> shape.kind, ty |-> OptionTypeOf(datatype), v |-> shape.v] : shape \in PayloadShapes}

\* the columns of the user fields of a schema with payloads of the shapes given
ColumnsOf(fields, shapes) ==
    [i \in 1..Len(fields) |->
        Value(fields[i].data_type, fields[i].name,
              [kind |-> shapes[i].kind, ty |-> OptionTypeOf(fields[i].data_type), v |-> shapes[i].v],
              fields[i].nullable)]

Init ==
    /\ columns = << >>
    /\ primary_index = 0
    /\ origin = "none"
    /\ wrapper = NoWrapper
    /\ op = "init"
    /\ args = NoArgs
    /\ pc = 0
    /\ sink = << >>
    /\ ret = Unit
    /\ reads = {}

Idle == op # "panic" /\ ret.tag # "pending"

HasRow == origin \in {"new", "from_record_batch"}

\* DynRecordRef::new(columns, primary_index), given the columns of a schema
\* with any payload of each column's type, and any primary index up to the
\* number of columns
New ==
    /\ origin = "none" /\ Idle
    /\ \E n \in 0..MaxFields, t0 \in 0..(NumDataTypes - 1) :
        \E p \in 0..n :
            \E shapes \in [1..n -> PayloadShapes] :
                /\ columns' = ColumnsOf(UserFields(n, t0), shapes)
                /\ primary_index' = p
    /\ origin' = "new"
    /\ op' = "new"
    /\ args' = NoArgs
    /\ UNCHANGED <<wrapper, pc, sink, ret, reads>>

\* from_record_batch is called with the arguments a
FromRecordBatchCall(a) ==
    LET primary_key_index == PrimaryIndexOf(a.full_schema)
    IN  IF primary_key_index >= 0
        THEN \* the call returns the row in its wrapper
             /\ columns' = MaterializeColumns(a.record_batch, a.projection_mask,
                                              a.full_schema, primary_key_index)
             /\ primary_index' = primary_key_index
             /\ wrapper' = [has |-> TRUE,
                            ts |-> a.record_batch.columns[2].value,
                            null |-> a.record_batch.columns[1].value]
             /\ args' = a
             /\ reads' = ColumnsRead(a.record_batch, a.full_schema)
             /\ origin' = "from_record_batch"
             /\ op' = "from_record_batch"
             /\ UNCHANGED <<pc, sink, ret>>
        ELSE \* one of the unwraps of the primary_key_index entry panics
             /\ op' = "panic"
             /\ UNCHANGED <<columns, primary_index, origin, wrapper, args, pc, sink, ret, reads>>

\* DynRecordRef::from_record_batch on a full schema, a batch whose schema is
\* pruned from it, and a mask over the leaves of the full schema
FromRecordBatch ==
    /\ origin = "none" /\ Idle
    /\ \E n \in 0..MaxFields, t0 \in 0..(NumDataTypes - 1) :
        \E keep \in SUBSET (1..n), md \in Metadatas(n), m \in Masks(n) :
            \E rb \in RecordBatches(BatchSchema(n, t0, keep)) :
                FromRecordBatchCall([record_batch |-> rb, projection_mask |-> m,
                                     full_schema |-> FullSchema(n, t0, md)])

\* DynRecordRef::projection(projection_mask), with a mask over the leaves of
\* the row's schema
Projection ==
    /\ HasRow /\ Idle
    /\ \E m \in Masks(Len(columns)) :
        /\ columns' = projection(columns, primary_index, m)
        /\ args' = [call |-> "projection", projection_mask |-> m]
    /\ op' = "projection"
    /\ pc' = 0
    /\ sink' = << >>
    /\ ret' = Unit
    /\ reads' = {}
    /\ UNCHANGED <<primary_index, origin, wrapper>>

\* DynRecordRef::encode is called with an empty writer
EncodeBegin ==
    /\ HasRow /\ Idle
    /\ op' = "encode"
    /\ args' = NoArgs
    /\ pc' = 0
    /\ sink' = << >>
    /\ ret' = Pending
    /\ reads' = {}
    /\ UNCHANGED <<columns, primary_index, origin, wrapper>>

\* the next write call of encode, which the writer accepts or fails
EncodeWrite ==
    /\ op = "encode" /\ ret = Pending
    /\ pc < EncodeWrites(columns)
    /\ \E accepted \in BOOLEAN :
        LET st == EncodeStep(columns, primary_index,
                             [pc |-> pc, sink |-> sink, ret |-> ret], accepted)
        IN  /\ pc' = st.pc
            /\ sink' = st.sink
            /\ ret' = st.ret
    /\ UNCHANGED <<columns, primary_index, origin, wrapper, op, args, reads>>

\* encode leaves the loop and returns Ok(())
EncodeReturn ==
    /\ op = "encode" /\ ret = Pending
    /\ pc >= EncodeWrites(columns)
    /\ ret' = Ok
    /\ UNCHANGED <<columns, primary_index, origin, wrapper, op, args, pc, sink, reads>>

\* DynRecordRef::key, which takes the row and returns its primary column
Key ==
    /\ HasRow /\ Idle
    /\ primary_index < Len(columns)
    /\ ret' = [tag |-> "key", at |-> 0, value |-> columns[primary_index + 1]]
    /\ op' = "key"
    /\ origin' = "moved"
    /\ columns' = << >>
    /\ args' = NoArgs
    /\ pc' = 0
    /\ sink' = << >>
    /\ reads' = {}
    /\ UNCHANGED <<primary_index, wrapper>>

\* DynRecordRef::key, panicking with "The primary key must exist"
KeyPanic ==
    /\ HasRow /\ Idle
    /\ primary_index >= Len(columns)
    /\ op' = "panic"
    /\ args' = NoArgs
    /\ pc' = 0
    /\ sink' = << >>
    /\ ret' = Unit
    /\ reads' = {}
    /\ UNCHANGED <<columns, primary_index, origin, wrapper>>

Next ==
    \/ New
    \/ FromRecordBatch
    \/ Projection
    \/ EncodeBegin
    \/ EncodeWrite
    \/ EncodeReturn
    \/ Key
    \/ KeyPanic

Spec == Init /\ [][Next]_vars

\* the materializer alone: every call of from_record_batch
SpecMaterialize == Init /\ [][FromRecordBatch]_vars

\* the life of a row from DynRecordRef::new on.  New is given every row
\* from_record_batch returns (RowIsNewRow below), so the rows of this
\* specification are all the rows of Spec.
NextRow ==
    \/ New
    \/ Projection
    \/ EncodeBegin
    \/ EncodeWrite
    \/ EncodeReturn
    \/ Key
    \/ KeyPanic

SpecRow == Init /\ [][NextRow]_vars

\* every row of Spec is one of the rows DynRecordRef::new is given here
RowIsNewRow ==
    HasRow =>
        \E n \in 0..MaxFields, t0 \in 0..(NumDataTypes - 1) :
            /\ Len(columns) = n
            /\ primary_index \in 0..n
            /\ \A i \in 1..n :
                  /\ columns[i].value \in Payloads(UserFields(n, t0)[i].data_type)
                  /\ columns[i] = Value(UserFields(n, t0)[i].data_type, UserFields(n, t0)[i].name,
                                        columns[i].value, UserFields(n, t0)[i].nullable)

----------------------------------------------------------------------------
(* Properties *)

\* the step is a call of projection
ProjectionStep == op' = "projection"

\* the mask excludes the leaf of the column at the 0-based position idx
Excluded(projection_mask, idx) ==
    /\ ~projection_mask.all
    /\ ~projection_mask.mask[idx + USER_COLUMN_OFFSET + 1]

\* the mask that includes no leaf of a schema of n user columns
EmptyMask(n) == MaskOf([i \in 1..(n + USER_COLUMN_OFFSET) |-> FALSE])

\* C1: projection(mask), for any row and any mask (the mask that includes no
\* leaf too), leaves the payload of the column at primary_index as it was
C1_PrimaryKeyUntouched ==
    [][ProjectionStep /\ primary_index < Len(columns)
         => columns'[primary_index + 1].value = columns[primary_index + 1].value]_vars

\* a row whose primary key kept its value through a projection with the
\* mask that includes no leaf, which emptied another column
C1_Witness ==
    /\ op = "projection"
    /\ Len(columns) >= 2
    /\ args.projection_mask = EmptyMask(Len(columns))
    /\ primary_index < Len(columns)
    /\ columns[primary_index + 1].value.kind = "bare"
    /\ columns[primary_index + 1].value.v = MaxVal
    /\ \E j \in 1..Len(columns) : columns[j].value.kind = "none"

\* C2: every row from_record_batch returns, and every row reached from it by
\* projection calls, has primary_index inside columns and a payload at
\* primary_index that is not the empty variant
C2_PrimaryIndexValidAndNonNull ==
    (origin = "from_record_batch" /\ op \in {"from_record_batch", "projection"})
        => /\ primary_index < Len(columns)
           /\ columns[primary_index + 1].value.kind # "none"

\* the position (1-based) of the batch field of the name of field, 0 if none
BatchPosition(record_batch, field) ==
    IF \E i \in 1..Len(record_batch.schema) : record_batch.schema[i].name = field.name
    THEN CHOOSE i \in 1..Len(record_batch.schema) : record_batch.schema[i].name = field.name
    ELSE 0

\* the state is the one from_record_batch returned in
Materialized == op = "from_record_batch"

\* the 0-based positions of the user fields of the full schema of the call
UserPositions == 2..(Len(args.full_schema.fields) - 1)

\* C3: a field at position idx >= 2 that the batch holds and that is not the
\* primary key is materialized as Some(physical value) if the value is not
\* null and the mask includes leaf idx, and as None otherwise, whatever its
\* type tag
C3_OptionalPayload ==
    Materialized =>
        \A idx \in UserPositions :
            LET field == args.full_schema.fields[idx + 1]
                at    == BatchPosition(args.record_batch, field)
                cell  == args.record_batch.columns[at]
                mask  == args.projection_mask
                included == mask.all \/ mask.mask[idx + 1]
            IN  (at # 0 /\ idx - 2 # primary_index) =>
                    /\ Len(columns) >= idx - 1
                    /\ columns[idx - 1].value =
                          IF ~cell.is_null /\ included
                          THEN Some(OptionTypeOf(field.data_type), cell.value)
                          ELSE None(OptionTypeOf(field.data_type))

\* a row with two optional columns the batch holds, both with a value and
\* neither primary: one included by the mask and present, one excluded and empty
C3_Witness ==
    /\ Materialized
    /\ Len(columns) >= 2
    /\ primary_index >= Len(columns)
    /\ \A i \in 3..Len(args.record_batch.columns) : ~args.record_batch.columns[i].is_null
    /\ Len(args.record_batch.columns) = Len(args.full_schema.fields)
    /\ columns[1].value.kind = "some"
    /\ columns[2].value.kind = "none"

\* C4: the field at the position idx with idx - 2 = primary_key_index, when
\* the batch holds it, is materialized as the bare physical value, whatever
\* the mask and the null bit
C4_PrimaryBare ==
    Materialized =>
        \A idx \in UserPositions :
            LET field == args.full_schema.fields[idx + 1]
                at    == BatchPosition(args.record_batch, field)
                cell  == args.record_batch.columns[at]
            IN  (at # 0 /\ idx - 2 = primary_index) =>
                    /\ Len(columns) >= idx - 1
                    /\ columns[idx - 1].value = Bare(OptionTypeOf(field.data_type), cell.value)

\* a row whose primary column was read bare from a cell with the null bit
\* set, under a mask that excludes its leaf
C4_Witness ==
    /\ Materialized
    /\ primary_index < Len(columns)
    /\ LET field == args.full_schema.fields[primary_index + 3]
           at    == BatchPosition(args.record_batch, field)
       IN  /\ at # 0
           /\ args.record_batch.columns[at].is_null
           /\ args.record_batch.columns[at].value = MaxVal
           /\ Excluded(args.projection_mask, primary_index)
           /\ columns[primary_index + 1].value.kind = "bare"

\* C5: the columns are those of the user fields of the full schema, in its
\* order, each with the field's type tag, name and nullability; a field the
\* batch omits has the None payload of its type under every mask, and the
\* batch columns read are columns 0 and 1 and those of the fields it holds
C5_MissingFieldIsNull ==
    Materialized =>
        /\ Len(columns) = Len(args.full_schema.fields) - 2
        /\ \A idx \in UserPositions :
              LET field == args.full_schema.fields[idx + 1]
                  at    == BatchPosition(args.record_batch, field)
              IN  /\ columns[idx - 1].datatype = field.data_type
                  /\ columns[idx - 1].name = field.name
                  /\ columns[idx - 1].is_nullable = field.nullable
                  /\ at = 0 => columns[idx - 1].value = None(OptionTypeOf(field.data_type))
        /\ reads = {0, 1} \cup
                   { BatchPosition(args.record_batch, args.full_schema.fields[idx + 1]) - 1 :
                       idx \in {i \in UserPositions :
                                  BatchPosition(args.record_batch,
                                                args.full_schema.fields[i + 1]) # 0} }

\* a row of two fields of which the batch omits the first, under the mask
\* that includes everything: the first column is empty, the second read
C5_Witness ==
    /\ Materialized
    /\ Len(columns) = 2
    /\ args.projection_mask.all
    /\ BatchPosition(args.record_batch, args.full_schema.fields[3]) = 0
    /\ BatchPosition(args.record_batch, args.full_schema.fields[4]) = 3
    /\ columns[1].value.kind = "none"
    /\ columns[2].value.kind # "none"
    /\ reads = {0, 1, 2}

\* C6: projection(mask) leaves the number and order of the columns, their
\* type tags, names and nullability and primary_index as they were, and every
\* column that is not primary and whose leaf j + USER_COLUMN_OFFSET the mask
\* excludes holds the None payload of its own type tag
C6_ExcludedBecomeNone ==
    [][ProjectionStep =>
          /\ Len(columns') = Len(columns)
          /\ primary_index' = primary_index
          /\ \A j \in 1..Len(columns) :
                /\ columns'[j].datatype = columns[j].datatype
                /\ columns'[j].name = columns[j].name
                /\ columns'[j].is_nullable = columns[j].is_nullable
                /\ (j - 1 # primary_index /\ Excluded(args'.projection_mask, j - 1))
                      => columns'[j].value = None(OptionTypeOf(columns[j].datatype))]_vars

\* a row of an Int16 column and a second column after a projection that
\* includes no user leaf: every column but the primary key is empty
C6_Witness ==
    /\ op = "projection"
    /\ Len(columns) >= 2
    /\ \E j \in 1..Len(columns) : columns[j].datatype = "Int16"
    /\ primary_index < Len(columns)
    /\ \A j \in 1..Len(columns) : Excluded(args.projection_mask, j - 1)
    /\ \A j \in 1..Len(columns) :
          (j - 1 # primary_index) <=> (columns[j].value.kind = "none")

\* C7: projection with the mask that includes everything leaves every
\* column's payload as it was
C7_FullProjectionIdentity ==
    [][(ProjectionStep /\ args'.projection_mask.all) => columns' = columns]_vars

\* a row after a projection with the include-everything mask that holds a
\* present optional column beside its primary key
C7_Witness ==
    /\ op = "projection"
    /\ args.projection_mask.all
    /\ Len(columns) >= 2
    /\ primary_index < Len(columns)
    /\ \E j \in 1..Len(columns) : j - 1 # primary_index /\ columns[j].value.kind = "some"

\* C8: a second projection with the mask of the projection just applied
\* leaves the row (columns and primary_index) as the first left it
C8_ProjectionIdempotent ==
    [][(op = "projection" /\ ProjectionStep /\ args' = args)
          => (columns' = columns /\ primary_index' = primary_index)]_vars

\* a row after a projection that emptied one column and kept another
C8_Witness ==
    /\ op = "projection"
    /\ ~args.projection_mask.all
    /\ \E j \in 1..Len(columns) :
          /\ j - 1 # primary_index
          /\ Excluded(args.projection_mask, j - 1)
          /\ columns[j].value.kind = "none"
    /\ \E j \in 1..Len(columns) :
          /\ j - 1 # primary_index
          /\ ~Excluded(args.projection_mask, j - 1)
          /\ columns[j].value.kind = "some"

\* the sum of the lengths of the encodings of the columns from position j on
RECURSIVE EncodedLenFrom(_, _)
EncodedLenFrom(cols, j) ==
    IF j > Len(cols) THEN 0 ELSE Len(ValueEncode(cols[j])) + EncodedLenFrom(cols, j + 1)

\* C9: when encode returns Ok, and each column's size() is the length of its
\* own encoding, size() is the number of bytes written: 8 bytes of header
\* plus the encoded sizes of the columns
C9_SizeIsEncodedLength ==
    (op = "encode" /\ ret = Ok
        /\ \A j \in 1..Len(columns) : ValueSize(columns[j]) = Len(ValueEncode(columns[j])))
    => /\ size(columns) = BytesWritten(sink)
       /\ size(columns) = 8 + EncodedLenFrom(columns, 1)

\* an encode that returned Ok on a row of two columns, one a present text
\* or bytes value of length MaxVal
C9_Witness ==
    /\ op = "encode"
    /\ ret = Ok
    /\ Len(columns) >= 2
    /\ \E j \in 1..Len(columns) :
          /\ columns[j].value.ty \in {"String", "Vec<u8>"}
          /\ columns[j].value.kind = "some"
          /\ columns[j].value.v = MaxVal

\* the items of a whole encoding of the row
WholeEncoding ==
    <<U32Item(Len(columns)), U32Item(primary_index)>> \o [j \in 1..Len(columns) |-> ColItem(columns[j])]

IsPrefix(s, t) == Len(s) <= Len(t) /\ \A i \in 1..Len(s) : s[i] = t[i]

\* C10: the items encode has written are a prefix of column count, primary
\* index, column 0 .. column n-1; each write call either adds the next item
\* or fails, and the first failure returns the error with no write after it;
\* encode returns Ok exactly when the whole sequence is written
C10_EncodeOrder ==
    [][(op' = "encode") =>
          /\ IsPrefix(sink', WholeEncoding')
          /\ (ret'.tag = "Ok") <=> (ret'.tag # "pending" /\ sink' = WholeEncoding')
          /\ ret'.tag = "Err" => (ret'.at = Len(sink') /\ pc' = Len(sink') + 1
                                   /\ Len(sink') < Len(WholeEncoding'))
          /\ ret'.tag = "pending" => pc' = Len(sink')
          /\ (op = "encode" /\ ret.tag = "pending") =>
                \/ sink' = sink
                \/ sink' = Append(sink, WholeEncoding[Len(sink) + 1])
          /\ (op = "encode" /\ ret.tag # "pending") => (sink' = << >> /\ ret'.tag = "pending")]_vars

\* an encode that failed at the write of its second column, after the
\* header and the first column were written
C10_Witness ==
    /\ op = "encode"
    /\ ret = Err(3)
    /\ Len(columns) >= 2
    /\ sink = <<U32Item(Len(columns)), U32Item(primary_index), ColItem(columns[1])>>
    /\ primary_index # Len(columns)

====
